---------------------------- MODULE Spec2Model ----------------------------
(***************************************************************************)
(* Model of the API-key server of src/src/lib.rs: the five axum handlers   *)
(* (create_key, list_keys, delete_key, regenerate_key, lookup_key) running *)
(* as concurrent tasks over the InMemoryStorage adapter, whose map         *)
(* HashMap<String, Vec<ApiKey>> is guarded by one tokio Mutex.             *)
(*                                                                         *)
(* A Uuid is modelled as a positive natural (0 is the nil uuid); a String  *)
(* secret is a TLA+ string, and Uuid::to_string is TLC's ToString.         *)
(***************************************************************************)
EXTENDS Naturals, Sequences, FiniteSets, TLC

\* ------------------------------------------------------------------ bounds
\* the number of Uuid::new_v4() draws the model follows
MaxUuids == 4

\* the number of draws (ids and secrets together) the model follows when the
\* server is built with the pooled generator
MaxPooledDraws == 5

\* the request-handling tasks that run concurrently
Handlers == {"h1", "h2"}

\* token_data.claims.sub of the two test users
Tenants == {"user1", "user2"}

\* InputApiKey.name values sent by the callers
Names == {"Test Key", "Key 2"}

\* ------------------------------------------------------------------ state
VARIABLES
    keys,        \* InMemoryStorage.keys: user_id -> Vec<ApiKey> (a partial map)
    lock,        \* the holder of the tokio Mutex around keys, or NoHolder
    pc,          \* pc[h]: where handler task h stands
    local,       \* local[h]: the handler's arguments and local variables
    resp,        \* resp[h]: the response the handler returned
    uuids,       \* how many Uuid::new_v4() values have been drawn
    generator,   \* which SecretGenerator the server was built with
    generated,   \* history: <<user_id, secret>> pairs the generator produced
    replaced,    \* history: <<user_id, secret>> pairs overwritten by update_key
    deleted      \* history: <<user_id, id>> pairs removed by delete_key

vars == <<keys, lock, pc, local, resp, uuids, generator, generated, replaced, deleted>>

NoHolder == "none"

\* ---------------------------------------------------------------- values
\* a uuid source that repeats after two draws
NewV4Repeating(n) == 1 + (n % 2)

\* Uuid::new_v4(): a value never drawn before (n draws have been made)
NewV4(n) == n + 1

\* Uuid::to_string
UuidToString(u) == ToString(u)

\* a generator with a period of two values
UuidGenerateShortPeriod(n) == UuidToString(2 + (n % 2))

\* UuidSecretGenerator::generate: Uuid::new_v4().to_string()
UuidGenerate(n) == UuidToString(NewV4(n))

\* the strings a SecretGenerator implementation other than the uuid one may return
PluggableSecrets == {"s1", "s2"}

\* SecretGenerator::generate, as the set of values the call may return
Generate(g, n) == IF g = "uuid" THEN {UuidGenerate(n)} ELSE PluggableSecrets

\* every generate() call counts as one draw, whichever generator is plugged in,
\* so that MaxUuids bounds the number of secrets as well as the number of ids
GenerateDraws(g) == 1

\* the draws (ids and secrets) followed when the server is built with the
\* generator g
DrawLimit(g) == IF g = "pooled" THEN MaxPooledDraws ELSE MaxUuids

\* the ids a DELETE /keys/:id or POST /keys/:id request may carry
RequestIds == 1..MaxUuids

\* the secrets a POST /lookup request may carry
RequestSecrets(g) ==
    (IF g = "uuid" THEN {UuidToString(u) : u \in 1..MaxUuids} ELSE PluggableSecrets)
        \cup {"invalid_secret"}

ApiKey(id, name, secret) == [id |-> id, name |-> name, secret |-> secret]

\* a projection that keeps every field of the key
ProtectedApiKeyWithSecret(key) == key

ProtectedApiKey(key) == [id |-> key.id, name |-> key.name]

\* ------------------------------------------------------ InMemoryStorage
\* the least index among matches, 0 when there is none (Iterator::position, find)
FirstIndex(matches) ==
    IF matches = {} THEN 0 ELSE CHOOSE i \in matches : \A j \in matches : i <= j

\* user_keys.iter().position(|key| key.id == key_id)
IndexOfId(user_keys, key_id) ==
    FirstIndex({i \in 1..Len(user_keys) : user_keys[i].id = key_id})

\* a find that compares the key's name with the presented secret
IndexOfSecretByName(user_keys, secret) ==
    FirstIndex({i \in 1..Len(user_keys) : user_keys[i].name = secret})

\* a search from the back: user_keys.iter().rev().find(|key| key.secret == secret)
IndexOfSecretLast(user_keys, secret) ==
    LET matches == {i \in 1..Len(user_keys) : user_keys[i].secret = secret}
    IN  IF matches = {} THEN 0 ELSE CHOOSE i \in matches : \A j \in matches : j <= i

\* user_keys.iter().find(|key| key.secret == secret)
IndexOfSecret(user_keys, secret) ==
    FirstIndex({i \in 1..Len(user_keys) : user_keys[i].secret = secret})

RemoveAt(seq, i) == [j \in 1..(Len(seq) - 1) |-> IF j < i THEN seq[j] ELSE seq[j + 1]]

\* a create that refuses a name the tenant already uses
StorageCreateKeyUniqueName(ks, user_id, key) ==
    IF user_id \in DOMAIN ks /\ \E i \in 1..Len(ks[user_id]) : ks[user_id][i].name = key.name
    THEN [result |-> "InternalError", keys |-> ks]
    ELSE [result |-> "Ok",
          keys   |-> IF user_id \in DOMAIN ks
                     THEN [ks EXCEPT ![user_id] = Append(@, key)]
                     ELSE ks @@ (user_id :> <<key>>)]

\* a create that overwrites the partition: keys.insert(user_id, vec![key])
StorageCreateKeyInsert(ks, user_id, key) ==
    [result |-> "Ok",
     keys   |-> [u \in DOMAIN ks \cup {user_id} |-> IF u = user_id THEN <<key>> ELSE ks[u]]]

\* a create that pushes the key onto every partition
StorageCreateKeyEveryPartition(ks, user_id, key) ==
    [result |-> "Ok",
     keys   |-> [u \in DOMAIN ks \cup {user_id} |->
                    IF u \in DOMAIN ks THEN Append(ks[u], key) ELSE <<key>>]]

\* a create that puts the key in front: user_keys.insert(0, key)
StorageCreateKeyFront(ks, user_id, key) ==
    [result |-> "Ok",
     keys   |-> IF user_id \in DOMAIN ks
                THEN [ks EXCEPT ![user_id] = <<key>> \o @]
                ELSE ks @@ (user_id :> <<key>>)]

\* keys.entry(user_id).or_insert_with(Vec::new).push(key)
StorageCreateKey(ks, user_id, key) ==
    [result |-> "Ok",
     keys   |-> IF user_id \in DOMAIN ks
                THEN [ks EXCEPT ![user_id] = Append(@, key)]
                ELSE ks @@ (user_id :> <<key>>)]

\* a list that also returns the keys of another partition
StorageListKeysEveryTenant(ks, user_id) ==
    LET own == IF user_id \in DOMAIN ks THEN ks[user_id] ELSE <<>>
        others == DOMAIN ks \ {user_id}
    IN  [result |-> "Ok",
         value  |-> IF others = {} THEN own ELSE own \o ks[CHOOSE u \in others : TRUE]]

\* a list that fails for a tenant without a partition
StorageListKeysStrict(ks, user_id) ==
    IF user_id \in DOMAIN ks
    THEN [result |-> "Ok", value |-> ks[user_id]]
    ELSE [result |-> "NotFound", value |-> <<>>]

\* keys.get(user_id).cloned().unwrap_or_default()
StorageListKeys(ks, user_id) ==
    [result |-> "Ok",
     value  |-> IF user_id \in DOMAIN ks THEN ks[user_id] ELSE <<>>]

\* a delete that removes the id from whichever partition holds it
StorageDeleteKeyAnyTenant(ks, user_id, key_id) ==
    IF \E u \in DOMAIN ks : IndexOfId(ks[u], key_id) # 0
    THEN [result |-> "Ok",
          keys |-> [u \in DOMAIN ks |->
                       IF IndexOfId(ks[u], key_id) # 0
                       THEN RemoveAt(ks[u], IndexOfId(ks[u], key_id))
                       ELSE ks[u]]]
    ELSE [result |-> "NotFound", keys |-> ks]

\* a delete by user_keys.retain(|key| key.id != key_id), always Ok
StorageDeleteKeyRetain(ks, user_id, key_id) ==
    [result |-> "Ok",
     keys   |-> IF user_id \in DOMAIN ks /\ IndexOfId(ks[user_id], key_id) # 0
                THEN [ks EXCEPT ![user_id] = RemoveAt(@, IndexOfId(ks[user_id], key_id))]
                ELSE ks]

StorageDeleteKey(ks, user_id, key_id) ==
    IF user_id \in DOMAIN ks
    THEN LET index == IndexOfId(ks[user_id], key_id)
         IN  IF index # 0
             THEN [result |-> "Ok", keys |-> [ks EXCEPT ![user_id] = RemoveAt(@, index)]]
             ELSE [result |-> "NotFound", keys |-> ks]
    ELSE [result |-> "NotFound", keys |-> ks]

\* an update that answers Ok for a stored id without writing the key
StorageUpdateKeyNoWrite(ks, user_id, key) ==
    IF user_id \in DOMAIN ks /\ IndexOfId(ks[user_id], key.id) # 0
    THEN [result |-> "Ok", keys |-> ks]
    ELSE [result |-> "NotFound", keys |-> ks]

\* an update that pushes the new value and leaves the stored key in place
StorageUpdateKeyPush(ks, user_id, key) ==
    IF user_id \in DOMAIN ks /\ IndexOfId(ks[user_id], key.id) # 0
    THEN [result |-> "Ok", keys |-> [ks EXCEPT ![user_id] = Append(@, key)]]
    ELSE [result |-> "NotFound", keys |-> ks]

\* an update that inserts the key when the id is not stored (an upsert)
StorageUpdateKeyUpsert(ks, user_id, key) ==
    IF user_id \in DOMAIN ks /\ IndexOfId(ks[user_id], key.id) # 0
    THEN [result |-> "Ok",
          keys |-> [ks EXCEPT ![user_id][IndexOfId(ks[user_id], key.id)] = key]]
    ELSE [result |-> "Ok",
          keys |-> IF user_id \in DOMAIN ks
                   THEN [ks EXCEPT ![user_id] = Append(@, key)]
                   ELSE ks @@ (user_id :> <<key>>)]

StorageUpdateKey(ks, user_id, key) ==
    IF user_id \in DOMAIN ks
    THEN LET index == IndexOfId(ks[user_id], key.id)
         IN  IF index # 0
             THEN [result |-> "Ok", keys |-> [ks EXCEPT ![user_id][index] = key]]
             ELSE [result |-> "NotFound", keys |-> ks]
    ELSE [result |-> "NotFound", keys |-> ks]

\* a lookup that searches every partition instead of the caller's
StorageLookupKeyAnyTenant(ks, user_id, secret) ==
    LET holders == {u \in DOMAIN ks : IndexOfSecret(ks[u], secret) # 0}
    IN  [result |-> "Ok",
         value  |-> IF holders # {}
                    THEN LET u == CHOOSE v \in holders : TRUE
                         IN  <<ks[u][IndexOfSecret(ks[u], secret)]>>
                    ELSE <<>>]

\* Option<ApiKey> as a sequence of at most one key
StorageLookupKey(ks, user_id, secret) ==
    IF user_id \in DOMAIN ks
    THEN LET index == IndexOfSecret(ks[user_id], secret)
         IN  [result |-> "Ok",
              value  |-> IF index # 0 THEN <<ks[user_id][index]>> ELSE <<>>]
    ELSE [result |-> "Ok", value |-> <<>>]

\* ------------------------------------------------------------- responses
NoBody == <<>>

\* create_key: Ok(_) => Json(api_key), Err(e) => INTERNAL_SERVER_ERROR
CreateKeyResponse(result, api_key) ==
    IF result = "Ok"
    THEN [status |-> 200, body |-> <<api_key>>]
    ELSE [status |-> 500, body |-> NoBody]

\* user_keys.iter().map(|key| ProtectedApiKey { .. }).collect()
ProtectedView(user_keys) == [i \in 1..Len(user_keys) |-> ProtectedApiKey(user_keys[i])]

\* list_keys: Ok(user_keys) => Json(protected view), Err(e) => INTERNAL_SERVER_ERROR
ListKeysResponse(r) ==
    IF r.result = "Ok"
    THEN [status |-> 200, body |-> ProtectedView(r.value)]
    ELSE [status |-> 500, body |-> NoBody]

\* delete_key: Ok(_) => NO_CONTENT, Err(NotFound) => NOT_FOUND, Err(e) => INTERNAL_SERVER_ERROR
DeleteKeyResponse(result) ==
    CASE result = "Ok"       -> [status |-> 204, body |-> NoBody]
      [] result = "NotFound" -> [status |-> 404, body |-> NoBody]
      [] OTHER               -> [status |-> 500, body |-> NoBody]

\* regenerate_key, the arms that answer without a key to update: the id is
\* not in the list (NOT_FOUND), Err(NotFound) => NOT_FOUND, Err(e) => 500
RegenerateMissResponse(result) ==
    CASE result = "Ok"       -> [status |-> 404, body |-> NoBody]
      [] result = "NotFound" -> [status |-> 404, body |-> NoBody]
      [] OTHER               -> [status |-> 500, body |-> NoBody]

\* regenerate_key, the inner match on update_key: Ok(_) => Json(updated_key),
\* Err(e) => INTERNAL_SERVER_ERROR
RegenerateUpdateResponse(result, updated_key) ==
    IF result = "Ok"
    THEN [status |-> 200, body |-> <<updated_key>>]
    ELSE [status |-> 500, body |-> NoBody]

\* lookup_key: Ok(Some(key)) => Json(ProtectedApiKey), Ok(None) => NOT_FOUND,
\* Err(e) => INTERNAL_SERVER_ERROR
LookupKeyResponse(r) ==
    CASE r.result = "Ok" /\ r.value # <<>> -> [status |-> 200, body |-> <<ProtectedApiKey(r.value[1])>>]
      [] r.result = "Ok" /\ r.value = <<>> -> [status |-> 404, body |-> NoBody]
      [] OTHER                             -> [status |-> 500, body |-> NoBody]

\* --------------------------------------------------------------- handlers
\* the arguments and local variables of one handler invocation
\* (op: the handler; user_id: token_data.claims.sub; id, name, secret: the
\* Path or Json argument; key: api_key, updated_key or the looked-up key;
\* user_keys: the list read by regenerate_key; result: the last storage result)
Local(op, user_id, id, name, secret, key, user_keys, result) ==
    [op |-> op, user_id |-> user_id, id |-> id, name |-> name, secret |-> secret,
     key |-> key, user_keys |-> user_keys, result |-> result]

NoLocal == Local("none", "none", 0, "", "", <<>>, <<>>, "none")

NoResp == [status |-> 0, body |-> NoBody]

\* the positions at which a handler that has already run some of its body
\* awaits the Mutex of a storage call (a handler whose first await is the
\* storage call takes the Mutex in the step that starts it)
StorageCalls == {"create_key", "regenerate_update_key"}

Init ==
    /\ keys = [u \in {} |-> <<>>]
    /\ lock = NoHolder
    /\ pc = [h \in Handlers |-> "idle"]
    /\ local = [h \in Handlers |-> NoLocal]
    /\ resp = [h \in Handlers |-> NoResp]
    /\ uuids = 0
    /\ generator = "uuid"
    /\ generated = {}
    /\ replaced = {}
    /\ deleted = {}

\* the same server built with another SecretGenerator implementation
InitPluggable ==
    /\ keys = [u \in {} |-> <<>>]
    /\ lock = NoHolder
    /\ pc = [h \in Handlers |-> "idle"]
    /\ local = [h \in Handlers |-> NoLocal]
    /\ resp = [h \in Handlers |-> NoResp]
    /\ uuids = 0
    /\ generator = "pluggable"
    /\ generated = {}
    /\ replaced = {}
    /\ deleted = {}

\* a lock() that returns a guard although another task holds one
AcquireWithoutWaiting(h) ==
    /\ pc[h] \in StorageCalls
    /\ lock # h
    /\ lock' = h
    /\ UNCHANGED <<keys, pc, local, resp, uuids, generator, generated, replaced, deleted>>

\* self.keys.lock().await
Acquire(h) ==
    /\ pc[h] \in StorageCalls
    /\ lock = NoHolder
    /\ lock' = h
    /\ UNCHANGED <<keys, pc, local, resp, uuids, generator, generated, replaced, deleted>>

\* POST /keys: build the ApiKey (id, name, secret), then call the storage
CreateKey(h, user_id, name) ==
    /\ pc[h] = "idle"
    /\ uuids + 1 + GenerateDraws(generator) <= DrawLimit(generator)
    /\ \E secret \in Generate(generator, uuids + 1) :
          /\ local' = [local EXCEPT ![h] =
                 Local("create", user_id, 0, name, "", <<ApiKey(NewV4(uuids), name, secret)>>, <<>>, "none")]
          /\ generated' = generated \cup {<<user_id, secret>>}
    /\ uuids' = uuids + 1 + GenerateDraws(generator)
    /\ pc' = [pc EXCEPT ![h] = "create_key"]
    /\ UNCHANGED <<keys, lock, resp, generator, replaced, deleted>>

CreateKeyStorage(h) ==
    /\ pc[h] = "create_key"
    /\ lock = h
    /\ LET r == StorageCreateKey(keys, local[h].user_id, local[h].key[1])
       IN  /\ keys' = r.keys
           /\ local' = [local EXCEPT ![h].result = r.result]
           /\ resp' = [resp EXCEPT ![h] = CreateKeyResponse(r.result, local[h].key[1])]
    /\ lock' = NoHolder
    /\ pc' = [pc EXCEPT ![h] = "done"]
    /\ UNCHANGED <<uuids, generator, generated, replaced, deleted>>

\* GET /keys
ListKeys(h, user_id) ==
    /\ pc[h] = "idle"
    /\ lock = NoHolder
    /\ lock' = h
    /\ local' = [local EXCEPT ![h] = Local("list", user_id, 0, "", "", <<>>, <<>>, "none")]
    /\ pc' = [pc EXCEPT ![h] = "list_keys"]
    /\ UNCHANGED <<keys, resp, uuids, generator, generated, replaced, deleted>>

ListKeysStorage(h) ==
    /\ pc[h] = "list_keys"
    /\ lock = h
    /\ LET r == StorageListKeys(keys, local[h].user_id)
       IN  /\ local' = [local EXCEPT ![h].result = r.result, ![h].user_keys = r.value]
           /\ resp' = [resp EXCEPT ![h] = ListKeysResponse(r)]
    /\ lock' = NoHolder
    /\ pc' = [pc EXCEPT ![h] = "done"]
    /\ UNCHANGED <<keys, uuids, generator, generated, replaced, deleted>>

\* DELETE /keys/:id
DeleteKey(h, user_id, id) ==
    /\ pc[h] = "idle"
    /\ lock = NoHolder
    /\ lock' = h
    /\ local' = [local EXCEPT ![h] = Local("delete", user_id, id, "", "", <<>>, <<>>, "none")]
    /\ pc' = [pc EXCEPT ![h] = "delete_key"]
    /\ UNCHANGED <<keys, resp, uuids, generator, generated, replaced, deleted>>

DeleteKeyStorage(h) ==
    /\ pc[h] = "delete_key"
    /\ lock = h
    /\ LET r == StorageDeleteKey(keys, local[h].user_id, local[h].id)
       IN  /\ keys' = r.keys
           /\ local' = [local EXCEPT ![h].result = r.result]
           /\ resp' = [resp EXCEPT ![h] = DeleteKeyResponse(r.result)]
           /\ deleted' = IF r.result = "Ok"
                         THEN deleted \cup {<<local[h].user_id, local[h].id>>}
                         ELSE deleted
    /\ lock' = NoHolder
    /\ pc' = [pc EXCEPT ![h] = "done"]
    /\ UNCHANGED <<uuids, generator, generated, replaced>>

\* the regenerate_key invocations that have not yet called generate()
AwaitingGenerate == {h \in Handlers : pc[h] \in {"regenerate_list_keys", "regenerate_generate"}}

\* POST /keys/:id
RegenerateKey(h, user_id, id) ==
    /\ pc[h] = "idle"
    /\ lock = NoHolder
    /\ lock' = h
    /\ uuids + (Cardinality(AwaitingGenerate) + 1) * GenerateDraws(generator) <= DrawLimit(generator)
    /\ local' = [local EXCEPT ![h] = Local("regenerate", user_id, id, "", "", <<>>, <<>>, "none")]
    /\ pc' = [pc EXCEPT ![h] = "regenerate_list_keys"]
    /\ UNCHANGED <<keys, resp, uuids, generator, generated, replaced, deleted>>

\* user_keys.iter_mut().find(|key| key.id == id), as an index into user_keys
RegenerateFind(user_keys, id) == IndexOfId(user_keys, id)

\* a regenerate_key that keeps the MutexGuard of its list across the update
RegenerateListKeysKeepingGuard(h) ==
    /\ pc[h] = "regenerate_list_keys"
    /\ lock = h
    /\ LET r == StorageListKeys(keys, local[h].user_id)
           index == RegenerateFind(r.value, local[h].id)
       IN  IF r.result = "Ok" /\ index # 0
           THEN /\ local' = [local EXCEPT ![h].result = r.result,
                                          ![h].user_keys = r.value,
                                          ![h].key = <<r.value[index]>>]
                /\ pc' = [pc EXCEPT ![h] = "regenerate_generate"]
                /\ resp' = resp
                /\ lock' = h
           ELSE /\ local' = [local EXCEPT ![h].result = r.result, ![h].user_keys = r.value]
                /\ pc' = [pc EXCEPT ![h] = "done"]
                /\ resp' = [resp EXCEPT ![h] = RegenerateMissResponse(r.result)]
                /\ lock' = NoHolder
    /\ UNCHANGED <<keys, uuids, generator, generated, replaced, deleted>>

\* list_keys(sub), then the find
RegenerateListKeys(h) ==
    /\ pc[h] = "regenerate_list_keys"
    /\ lock = h
    /\ LET r == StorageListKeys(keys, local[h].user_id)
           index == RegenerateFind(r.value, local[h].id)
       IN  IF r.result = "Ok" /\ index # 0
           THEN /\ local' = [local EXCEPT ![h].result = r.result,
                                          ![h].user_keys = r.value,
                                          ![h].key = <<r.value[index]>>]
                /\ pc' = [pc EXCEPT ![h] = "regenerate_generate"]
                /\ resp' = resp
           ELSE /\ local' = [local EXCEPT ![h].result = r.result, ![h].user_keys = r.value]
                /\ pc' = [pc EXCEPT ![h] = "done"]
                /\ resp' = [resp EXCEPT ![h] = RegenerateMissResponse(r.result)]
    /\ lock' = NoHolder
    /\ UNCHANGED <<keys, uuids, generator, generated, replaced, deleted>>

\* updated_key = key.clone(); updated_key.secret = generate().await
RegenerateGenerate(h) ==
    /\ pc[h] = "regenerate_generate"
    /\ \E secret \in Generate(generator, uuids) :
          /\ local' = [local EXCEPT ![h].key = <<[local[h].key[1] EXCEPT !.secret = secret]>>]
          /\ generated' = generated \cup {<<local[h].user_id, secret>>}
    /\ uuids' = uuids + GenerateDraws(generator)
    /\ pc' = [pc EXCEPT ![h] = "regenerate_update_key"]
    /\ UNCHANGED <<keys, lock, resp, generator, replaced, deleted>>

\* the secrets that the keys of user_id with this id hold in ks
SecretsOf(ks, user_id, id) ==
    IF user_id \in DOMAIN ks
    THEN {ks[user_id][i].secret : i \in {j \in 1..Len(ks[user_id]) : ks[user_id][j].id = id}}
    ELSE {}

RegenerateUpdateKey(h) ==
    /\ pc[h] = "regenerate_update_key"
    /\ lock = h
    /\ LET r == StorageUpdateKey(keys, local[h].user_id, local[h].key[1])
       IN  /\ keys' = r.keys
           /\ local' = [local EXCEPT ![h].result = r.result]
           /\ resp' = [resp EXCEPT ![h] = RegenerateUpdateResponse(r.result, local[h].key[1])]
           /\ replaced' = replaced \cup
                 {<<local[h].user_id, s>> :
                     s \in SecretsOf(keys, local[h].user_id, local[h].id)
                           \ SecretsOf(r.keys, local[h].user_id, local[h].id)}
    /\ lock' = NoHolder
    /\ pc' = [pc EXCEPT ![h] = "done"]
    /\ UNCHANGED <<uuids, generator, generated, deleted>>

\* POST /lookup
LookupKey(h, user_id, secret) ==
    /\ pc[h] = "idle"
    /\ lock = NoHolder
    /\ lock' = h
    /\ local' = [local EXCEPT ![h] = Local("lookup", user_id, 0, "", secret, <<>>, <<>>, "none")]
    /\ pc' = [pc EXCEPT ![h] = "lookup_key"]
    /\ UNCHANGED <<keys, resp, uuids, generator, generated, replaced, deleted>>

LookupKeyStorage(h) ==
    /\ pc[h] = "lookup_key"
    /\ lock = h
    /\ LET r == StorageLookupKey(keys, local[h].user_id, local[h].secret)
       IN  /\ local' = [local EXCEPT ![h].result = r.result, ![h].key = r.value]
           /\ resp' = [resp EXCEPT ![h] = LookupKeyResponse(r)]
    /\ lock' = NoHolder
    /\ pc' = [pc EXCEPT ![h] = "done"]
    /\ UNCHANGED <<keys, uuids, generator, generated, replaced, deleted>>

\* the response has been sent; the task ends and its locals are dropped
Return(h) ==
    /\ pc[h] = "done"
    /\ pc' = [pc EXCEPT ![h] = "idle"]
    /\ local' = [local EXCEPT ![h] = NoLocal]
    /\ resp' = [resp EXCEPT ![h] = NoResp]
    /\ UNCHANGED <<keys, lock, uuids, generator, generated, replaced, deleted>>

Next ==
    \E h \in Handlers :
        \/ \E user_id \in Tenants, name \in Names : CreateKey(h, user_id, name)
        \/ \E user_id \in Tenants : ListKeys(h, user_id)
        \/ \E user_id \in Tenants, id \in RequestIds : DeleteKey(h, user_id, id)
        \/ \E user_id \in Tenants, id \in RequestIds : RegenerateKey(h, user_id, id)
        \/ \E user_id \in Tenants, secret \in RequestSecrets(generator) : LookupKey(h, user_id, secret)
        \/ Acquire(h)
        \/ CreateKeyStorage(h)
        \/ ListKeysStorage(h)
        \/ DeleteKeyStorage(h)
        \/ RegenerateListKeys(h)
        \/ RegenerateGenerate(h)
        \/ RegenerateUpdateKey(h)
        \/ LookupKeyStorage(h)
        \/ Return(h)

Spec == Init /\ [][Next]_vars

SpecPluggable == InitPluggable /\ [][Next]_vars

\* the same server built with a SecretGenerator that hands out the strings of
\* a fixed pool
InitPooled ==
    /\ keys = [u \in {} |-> <<>>]
    /\ lock = NoHolder
    /\ pc = [h \in Handlers |-> "idle"]
    /\ local = [h \in Handlers |-> NoLocal]
    /\ resp = [h \in Handlers |-> NoResp]
    /\ uuids = 0
    /\ generator = "pooled"
    /\ generated = {}
    /\ replaced = {}
    /\ deleted = {}

\* ------------------------------------------- the standalone server, main.rs
\* The handlers of src/src/main.rs work on AppState.keys (the variable keys)
\* directly; each takes the Mutex first and holds the guard until it returns.
\* Its secrets are always Uuid::new_v4().to_string().

\* create_key: keys.entry(sub).or_insert_with(Vec::new).push(api_key); Json(api_key)
MainCreateKey(ks, user_id, api_key) ==
    [resp |-> [status |-> 200, body |-> <<api_key>>],
     keys |-> IF user_id \in DOMAIN ks
              THEN [ks EXCEPT ![user_id] = Append(@, api_key)]
              ELSE ks @@ (user_id :> <<api_key>>)]

\* list_keys: keys.entry(sub).or_insert(Vec::new()), then the protected view
MainListKeys(ks, user_id) ==
    LET entry == IF user_id \in DOMAIN ks THEN ks ELSE ks @@ (user_id :> <<>>)
    IN  [resp |-> [status |-> 200, body |-> ProtectedView(entry[user_id])],
         keys |-> entry]

\* delete_key: get_mut(sub), position, remove => NO_CONTENT, else NOT_FOUND
MainDeleteKey(ks, user_id, id) ==
    IF user_id \in DOMAIN ks
    THEN LET index == IndexOfId(ks[user_id], id)
         IN  IF index # 0
             THEN [resp |-> [status |-> 204, body |-> NoBody],
                   keys |-> [ks EXCEPT ![user_id] = RemoveAt(@, index)]]
             ELSE [resp |-> [status |-> 404, body |-> NoBody], keys |-> ks]
    ELSE [resp |-> [status |-> 404, body |-> NoBody], keys |-> ks]

\* regenerate_key: get_mut(sub), iter_mut().find(id): key.secret = secret;
\* Json(key.clone()), else NOT_FOUND
MainRegenerateKey(ks, user_id, id, secret) ==
    IF user_id \in DOMAIN ks
    THEN LET index == IndexOfId(ks[user_id], id)
         IN  IF index # 0
             THEN LET key == [ks[user_id][index] EXCEPT !.secret = secret]
                  IN  [resp |-> [status |-> 200, body |-> <<key>>],
                       keys |-> [ks EXCEPT ![user_id][index] = key]]
             ELSE [resp |-> [status |-> 404, body |-> NoBody], keys |-> ks]
    ELSE [resp |-> [status |-> 404, body |-> NoBody], keys |-> ks]

\* lookup_key: get(sub), find(secret) => Json(ProtectedApiKey), else NOT_FOUND
MainLookupKey(ks, user_id, secret) ==
    IF user_id \in DOMAIN ks
    THEN LET index == IndexOfSecret(ks[user_id], secret)
         IN  IF index # 0
             THEN [resp |-> [status |-> 200, body |-> <<ProtectedApiKey(ks[user_id][index])>>],
                   keys |-> ks]
             ELSE [resp |-> [status |-> 404, body |-> NoBody], keys |-> ks]
    ELSE [resp |-> [status |-> 404, body |-> NoBody], keys |-> ks]

\* the positions of a main.rs handler that holds the guard and runs its body
MainBodies == {"main_create_key", "main_list_keys", "main_delete_key",
               "main_regenerate_key", "main_lookup_key"}

\* the extractors have run; let keys = app_state.keys.lock().await
MainLock(h) ==
    /\ pc[h] = "idle"
    /\ lock = NoHolder
    /\ lock' = h

\* POST /keys
MainCreateKeyRequest(h, user_id, name) ==
    /\ uuids + 2 <= MaxUuids
    /\ MainLock(h)
    /\ local' = [local EXCEPT ![h] = Local("create", user_id, 0, name, "", <<>>, <<>>, "none")]
    /\ pc' = [pc EXCEPT ![h] = "main_create_key"]
    /\ UNCHANGED <<keys, resp, uuids, generator, generated, replaced, deleted>>

MainCreateKeyBody(h) ==
    /\ pc[h] = "main_create_key"
    /\ lock = h
    /\ LET api_key == ApiKey(NewV4(uuids), local[h].name, UuidToString(NewV4(uuids + 1)))
           r == MainCreateKey(keys, local[h].user_id, api_key)
       IN  /\ keys' = r.keys
           /\ resp' = [resp EXCEPT ![h] = r.resp]
           /\ local' = [local EXCEPT ![h].key = <<api_key>>]
           /\ generated' = generated \cup {<<local[h].user_id, api_key.secret>>}
    /\ uuids' = uuids + 2
    /\ lock' = NoHolder
    /\ pc' = [pc EXCEPT ![h] = "done"]
    /\ UNCHANGED <<generator, replaced, deleted>>

\* GET /keys
MainListKeysRequest(h, user_id) ==
    /\ MainLock(h)
    /\ local' = [local EXCEPT ![h] = Local("list", user_id, 0, "", "", <<>>, <<>>, "none")]
    /\ pc' = [pc EXCEPT ![h] = "main_list_keys"]
    /\ UNCHANGED <<keys, resp, uuids, generator, generated, replaced, deleted>>

MainListKeysBody(h) ==
    /\ pc[h] = "main_list_keys"
    /\ lock = h
    /\ LET r == MainListKeys(keys, local[h].user_id)
       IN  /\ keys' = r.keys
           /\ resp' = [resp EXCEPT ![h] = r.resp]
    /\ lock' = NoHolder
    /\ pc' = [pc EXCEPT ![h] = "done"]
    /\ UNCHANGED <<local, uuids, generator, generated, replaced, deleted>>

\* DELETE /keys/:id
MainDeleteKeyRequest(h, user_id, id) ==
    /\ MainLock(h)
    /\ local' = [local EXCEPT ![h] = Local("delete", user_id, id, "", "", <<>>, <<>>, "none")]
    /\ pc' = [pc EXCEPT ![h] = "main_delete_key"]
    /\ UNCHANGED <<keys, resp, uuids, generator, generated, replaced, deleted>>

MainDeleteKeyBody(h) ==
    /\ pc[h] = "main_delete_key"
    /\ lock = h
    /\ LET r == MainDeleteKey(keys, local[h].user_id, local[h].id)
       IN  /\ keys' = r.keys
           /\ resp' = [resp EXCEPT ![h] = r.resp]
           /\ deleted' = IF r.resp.status = 204
                         THEN deleted \cup {<<local[h].user_id, local[h].id>>}
                         ELSE deleted
    /\ lock' = NoHolder
    /\ pc' = [pc EXCEPT ![h] = "done"]
    /\ UNCHANGED <<local, uuids, generator, generated, replaced>>

\* POST /keys/:id
MainRegenerateKeyRequest(h, user_id, id) ==
    /\ uuids + 1 <= MaxUuids
    /\ MainLock(h)
    /\ local' = [local EXCEPT ![h] = Local("regenerate", user_id, id, "", "", <<>>, <<>>, "none")]
    /\ pc' = [pc EXCEPT ![h] = "main_regenerate_key"]
    /\ UNCHANGED <<keys, resp, uuids, generator, generated, replaced, deleted>>

\* Uuid::new_v4() is drawn only when the key is found
MainRegenerateKeyBody(h) ==
    /\ pc[h] = "main_regenerate_key"
    /\ lock = h
    /\ LET secret == UuidToString(NewV4(uuids))
           r == MainRegenerateKey(keys, local[h].user_id, local[h].id, secret)
           found == r.resp.status = 200
       IN  /\ keys' = r.keys
           /\ resp' = [resp EXCEPT ![h] = r.resp]
           /\ local' = [local EXCEPT ![h].key = r.resp.body]
           /\ uuids' = IF found THEN uuids + 1 ELSE uuids
           /\ generated' = IF found THEN generated \cup {<<local[h].user_id, secret>>}
                           ELSE generated
           /\ replaced' = replaced \cup
                 {<<local[h].user_id, s>> :
                     s \in SecretsOf(keys, local[h].user_id, local[h].id)
                           \ SecretsOf(r.keys, local[h].user_id, local[h].id)}
    /\ lock' = NoHolder
    /\ pc' = [pc EXCEPT ![h] = "done"]
    /\ UNCHANGED <<generator, deleted>>

\* POST /lookup
MainLookupKeyRequest(h, user_id, secret) ==
    /\ MainLock(h)
    /\ local' = [local EXCEPT ![h] = Local("lookup", user_id, 0, "", secret, <<>>, <<>>, "none")]
    /\ pc' = [pc EXCEPT ![h] = "main_lookup_key"]
    /\ UNCHANGED <<keys, resp, uuids, generator, generated, replaced, deleted>>

MainLookupKeyBody(h) ==
    /\ pc[h] = "main_lookup_key"
    /\ lock = h
    /\ LET r == MainLookupKey(keys, local[h].user_id, local[h].secret)
       IN  resp' = [resp EXCEPT ![h] = r.resp]
    /\ lock' = NoHolder
    /\ pc' = [pc EXCEPT ![h] = "done"]
    /\ UNCHANGED <<keys, local, uuids, generator, generated, replaced, deleted>>

NextMain ==
    \E h \in Handlers :
        \/ \E user_id \in Tenants, name \in Names : MainCreateKeyRequest(h, user_id, name)
        \/ \E user_id \in Tenants : MainListKeysRequest(h, user_id)
        \/ \E user_id \in Tenants, id \in RequestIds : MainDeleteKeyRequest(h, user_id, id)
        \/ \E user_id \in Tenants, id \in RequestIds : MainRegenerateKeyRequest(h, user_id, id)
        \/ \E user_id \in Tenants, secret \in RequestSecrets(generator) :
              MainLookupKeyRequest(h, user_id, secret)
        \/ MainCreateKeyBody(h)
        \/ MainListKeysBody(h)
        \/ MainDeleteKeyBody(h)
        \/ MainRegenerateKeyBody(h)
        \/ MainLookupKeyBody(h)
        \/ Return(h)

\* the server of main.rs: AppState::default() is the empty map
SpecMain == Init /\ [][NextMain]_vars

\* ------------------------------------------------------------ properties
\* the ids and the secrets held by the keys of user_id's partition
IdsOf(ks, user_id) ==
    IF user_id \in DOMAIN ks THEN {ks[user_id][i].id : i \in 1..Len(ks[user_id])} ELSE {}

SecretsIn(ks, user_id) ==
    IF user_id \in DOMAIN ks THEN {ks[user_id][i].secret : i \in 1..Len(ks[user_id])} ELSE {}

\* the store with every partition but user_id's removed
OwnPartition(ks, user_id) == [u \in (DOMAIN ks) \cap {user_id} |-> ks[u]]

\* handler h returns its response in this step
Responds(h) == pc[h] # "done" /\ pc'[h] = "done"

\* a partition is stored for user_id before and after the step, or before only, or after only
PartitionChanged(user_id) ==
    \/ (user_id \in DOMAIN keys) # (user_id \in DOMAIN keys')
    \/ user_id \in DOMAIN keys /\ user_id \in DOMAIN keys' /\ keys[user_id] # keys'[user_id]

\* C1, part 1: in every reachable store, each storage call and each response
\* computed for tenant t2 is what it would be if the other partitions were empty.
C1_SameWithoutOthers ==
    \A t2 \in Tenants :
        LET own == OwnPartition(keys, t2)
        IN  /\ ListKeysResponse(StorageListKeys(keys, t2)) = ListKeysResponse(StorageListKeys(own, t2))
            /\ \A id \in RequestIds :
                  /\ DeleteKeyResponse(StorageDeleteKey(keys, t2, id).result)
                        = DeleteKeyResponse(StorageDeleteKey(own, t2, id).result)
                  /\ RegenerateFind(StorageListKeys(keys, t2).value, id)
                        = RegenerateFind(StorageListKeys(own, t2).value, id)
                  /\ StorageUpdateKey(keys, t2, ApiKey(id, "Test Key", "new")).result
                        = StorageUpdateKey(own, t2, ApiKey(id, "Test Key", "new")).result
            /\ \A s \in RequestSecrets(generator) :
                  LookupKeyResponse(StorageLookupKey(keys, t2, s))
                        = LookupKeyResponse(StorageLookupKey(own, t2, s))

\* C1, part 2: a response returned to tenant t2 never shows a key of another
\* tenant: a list holds only ids of t2's partition, and delete, regenerate and
\* lookup answer 404 for an id or a secret that only another tenant's key has.
C1_ResponseStep(h) ==
    LET t2 == local[h].user_id
        foreignIds == UNION {IdsOf(keys, t1) : t1 \in Tenants \ {t2}} \ IdsOf(keys, t2)
        foreignSecrets == UNION {SecretsIn(keys, t1) : t1 \in Tenants \ {t2}} \ SecretsIn(keys, t2)
    IN  /\ local[h].op = "list" =>
              \A i \in 1..Len(resp'[h].body) :
                  /\ resp'[h].body[i].id \in IdsOf(keys, t2)
                  /\ resp'[h].body[i].id \notin foreignIds
        /\ local[h].op \in {"delete", "regenerate"} /\ local[h].id \in foreignIds =>
              resp'[h].status = 404
        /\ local[h].op = "lookup" /\ local[h].secret \in foreignSecrets =>
              resp'[h].status = 404

\* C1: tenant isolation of observations (both parts, in every state and step)
C1_TenantIsolationOfObservations ==
    /\ []C1_SameWithoutOthers
    /\ [][\A h \in Handlers : Responds(h) => C1_ResponseStep(h)]_vars

\* C1 witness: user2 asked to delete, regenerate or look up something only
\* user1's stored key has, and was answered 404
C1_Witness ==
    \E h \in Handlers :
        /\ pc[h] = "done"
        /\ local[h].user_id = "user2"
        /\ resp[h].status = 404
        /\ \/ local[h].op \in {"delete", "regenerate"} /\ local[h].id \in IdsOf(keys, "user1")
           \/ local[h].op = "lookup" /\ local[h].secret \in SecretsIn(keys, "user1")

\* C2: every step that changes the partition of a tenant (its presence, its
\* keys, their ids, names, secrets or order) is a storage call made for that
\* very tenant; steps of handlers of other tenants leave it unchanged.
C2_TenantIsolationOfMutations ==
    [][\A t \in Tenants :
          PartitionChanged(t) => \E h \in Handlers : lock = h /\ local[h].user_id = t]_vars

\* C2 witness: a mutation for user2 has completed while user1 holds a key
C2_Witness ==
    \E h \in Handlers :
        /\ pc[h] = "done"
        /\ local[h].user_id = "user2"
        /\ local[h].op \in {"create", "delete", "regenerate"}
        /\ IdsOf(keys, "user1") # {}

\* the response LookupKey(user_id, secret) gets from store ks
LookupOn(ks, user_id, secret) == LookupKeyResponse(StorageLookupKey(ks, user_id, secret))

\* handler h performs the update_key call of regenerate_key in this step
RegenerateUpdateStep(h) == pc[h] = "regenerate_update_key" /\ pc'[h] = "done"

\* the key that regenerate_key found in the list it read
FoundKey(h) == local[h].user_keys[RegenerateFind(local[h].user_keys, local[h].id)]

\* C3: when regenerate_key writes and the tenant's partition is still the
\* list it read (no other operation changed it in between), it answers 200
\* with the same id and name and another secret; right after the write the
\* old secret looks up to 404 and the new one to that id and name.
C3_RegenerateStep(h) ==
    LET t == local[h].user_id
        old == FoundKey(h)
    IN  StorageListKeys(keys, t).value = local[h].user_keys =>
            /\ resp'[h].status = 200
            /\ Len(resp'[h].body) = 1
            /\ resp'[h].body[1].id = local[h].id
            /\ resp'[h].body[1].id = old.id
            /\ resp'[h].body[1].name = old.name
            /\ resp'[h].body[1].secret # old.secret
            /\ LookupOn(keys', t, old.secret).status = 404
            /\ LookupOn(keys', t, resp'[h].body[1].secret)
                   = [status |-> 200, body |-> <<[id |-> old.id, name |-> old.name]>>]

\* C3: an undisturbed RegenerateKey keeps id and name, changes the secret,
\* invalidates the old secret and makes the new one resolvable (every step)
C3_RegeneratePreservesIdAndName ==
    [][\A h \in Handlers : RegenerateUpdateStep(h) => C3_RegenerateStep(h)]_vars

\* C3 witness: a regenerate has answered 200, its new secret is stored and
\* the secret it read is not
C3_Witness ==
    \E h \in Handlers :
        /\ pc[h] = "done"
        /\ local[h].op = "regenerate"
        /\ resp[h].status = 200
        /\ resp[h].body[1].secret \in SecretsIn(keys, local[h].user_id)
        /\ FoundKey(h).secret \notin SecretsIn(keys, local[h].user_id)

\* p and q regenerate the same key of the same tenant, p has written and
\* answered 200, q read before p wrote, and the key has not been deleted
LostUpdateRace(p, q) ==
    /\ p # q
    /\ pc[p] = "done"
    /\ local[p].op = "regenerate"
    /\ resp[p].status = 200
    /\ local[q].user_id = local[p].user_id
    /\ local[q].id = local[p].id
    /\ FoundKey(q).secret # resp[p].body[1].secret
    /\ FoundKey(p).secret # local[q].key[1].secret
    /\ local[p].id \in IdsOf(keys, local[p].user_id)

\* C4: in that race the later update_key also succeeds: q answers 200 with
\* its own secret, the stored key keeps id and name and holds q's secret,
\* and p's secret no longer looks up although p's answer stays a 200.
C4_LostUpdateStep(p, q) ==
    LET t == local[q].user_id
        id == local[q].id
    IN  /\ resp'[q].status = 200
        /\ resp'[q].body[1].secret = local[q].key[1].secret
        /\ resp'[q].body[1].secret # resp[p].body[1].secret
        /\ SecretsOf(keys', t, id) = {resp'[q].body[1].secret}
        /\ Len(keys'[t]) = Len(keys[t])
        /\ \A i \in 1..Len(keys[t]) :
              /\ keys'[t][i].id = keys[t][i].id
              /\ keys'[t][i].name = keys[t][i].name
        /\ LookupOn(keys', t, resp[p].body[1].secret).status = 404
        /\ LookupOn(keys', t, resp'[q].body[1].secret).status = 200
        /\ resp'[p] = resp[p]
        /\ resp'[p].status = 200

\* C4: of two concurrent regenerates of one key both succeed and the later
\* write wins; the earlier caller's secret is silently lost (every step)
C4_ConcurrentRegenerateLaterWriteWins ==
    [][\A p \in Handlers, q \in Handlers :
          RegenerateUpdateStep(q) /\ LostUpdateRace(p, q) => C4_LostUpdateStep(p, q)]_vars

\* C4 witness: both regenerates of one key answered 200, each having read
\* before the other wrote; one secret is stored and the other is lost
C4_Witness ==
    \E p \in Handlers, q \in Handlers :
        /\ p # q
        /\ pc[p] = "done" /\ pc[q] = "done"
        /\ local[p].op = "regenerate" /\ local[q].op = "regenerate"
        /\ local[p].user_id = local[q].user_id /\ local[p].id = local[q].id
        /\ resp[p].status = 200 /\ resp[q].status = 200
        /\ FoundKey(p).secret = FoundKey(q).secret
        /\ SecretsOf(keys, local[q].user_id, local[q].id) = {resp[q].body[1].secret}
        /\ LookupOn(keys, local[p].user_id, resp[p].body[1].secret).status = 404

\* C5 (the claim as stated): a handler whose storage call failed answers in
\* kind: 404 for NotFound, 500 for any other failure.
C5_FailuresSurfaceInKind ==
    \A h \in Handlers :
        pc[h] = "done" /\ local[h].result # "Ok" =>
            IF local[h].result = "NotFound" THEN resp[h].status = 404 ELSE resp[h].status = 500

\* the responses ListKeys(user_id) and DeleteKey(user_id, id) get from store ks
ListOn(ks, user_id) == ListKeysResponse(StorageListKeys(ks, user_id))

DeleteOn(ks, user_id, id) == DeleteKeyResponse(StorageDeleteKey(ks, user_id, id).result)

\* the ids shown by a list response
ListedIds(r) == {r.body[i].id : i \in 1..Len(r.body)}

\* C6, in every state: an id that a delete_key removed from a tenant's
\* partition is not listed for that tenant and deleting it answers 404; so
\* does deleting any id the partition does not hold.
C6_DeletedStaysDeleted ==
    /\ \A d \in deleted :
          /\ d[2] \notin ListedIds(ListOn(keys, d[1]))
          /\ DeleteOn(keys, d[1], d[2]).status = 404
    /\ \A t \in Tenants, id \in RequestIds :
          id \notin IdsOf(keys, t) => DeleteOn(keys, t, id).status = 404

\* C6, in every step: the delete and list handlers answer accordingly
C6_ResponseStep(h) ==
    LET t == local[h].user_id
    IN  /\ local[h].op = "delete" /\ (<<t, local[h].id>> \in deleted \/ local[h].id \notin IdsOf(keys, t)) =>
              resp'[h].status = 404
        /\ local[h].op = "list" =>
              \A d \in deleted : d[1] = t => d[2] \notin ListedIds(resp'[h])

\* C6: a deleted key never comes back, and deleting a missing id is NotFound
C6_DeleteIsPermanent ==
    /\ []C6_DeletedStaysDeleted
    /\ [][\A h \in Handlers : Responds(h) => C6_ResponseStep(h)]_vars

\* C6 witness: a key was deleted and a second delete of it was answered 404
C6_Witness ==
    \E h \in Handlers :
        /\ pc[h] = "done"
        /\ local[h].op = "delete"
        /\ <<local[h].user_id, local[h].id>> \in deleted
        /\ resp[h].status = 404

\* handler h performs the storage call of create_key in this step
CreateKeyStep(h) == pc[h] = "create_key" /\ pc'[h] = "done"

\* C7: create_key answers 200 with a key of three fields that carries the
\* supplied name, an id and a secret whose strings are not empty; the list
\* read right after it is one entry longer than the list read right before,
\* and exactly one of its entries has the returned id: that entry has the
\* name and no secret.
C7_CreateStep(h) ==
    LET t == local[h].user_id
        before == ListOn(keys, t)
        after == ListOn(keys', t)
    IN  /\ resp'[h].status = 200
        /\ Len(resp'[h].body) = 1
        /\ DOMAIN resp'[h].body[1] = {"id", "name", "secret"}
        /\ resp'[h].body[1].name = local[h].name
        /\ UuidToString(resp'[h].body[1].id) # ""
        /\ resp'[h].body[1].secret # ""
        /\ after.status = 200
        /\ Len(after.body) = Len(before.body) + 1
        /\ Cardinality({i \in 1..Len(after.body) : after.body[i].id = resp'[h].body[1].id}) = 1
        /\ \A i \in 1..Len(after.body) :
              /\ DOMAIN after.body[i] = {"id", "name"}
              /\ after.body[i].id = resp'[h].body[1].id => after.body[i].name = local[h].name

\* C7: CreateKey returns the full key and the list then shows it once,
\* without its secret (every step)
C7_CreateReturnsKeyAndListShowsIt ==
    [][\A h \in Handlers : CreateKeyStep(h) => C7_CreateStep(h)]_vars

\* C7 witness: a create has answered while its tenant already had a key, and
\* both keys are listed
C7_Witness ==
    \E h \in Handlers :
        /\ pc[h] = "done"
        /\ local[h].op = "create"
        /\ resp[h].status = 200
        /\ Len(ListOn(keys, local[h].user_id).body) = 2
        /\ resp[h].body[1].id \in ListedIds(ListOn(keys, local[h].user_id))

\* C8, in every state: a lookup answers 200 exactly when a key of the
\* tenant's partition holds the secret, and then with the id and name of
\* such a key; otherwise it answers 404.  A key still stored as create_key
\* returned it is found by its secret.
C8_LookupMatchesStore ==
    /\ \A t \in Tenants, s \in RequestSecrets(generator) :
          LET r == LookupOn(keys, t, s)
          IN  /\ r.status \in {200, 404}
              /\ r.status = 200 <=> s \in SecretsIn(keys, t)
              /\ r.status = 200 =>
                    /\ Len(r.body) = 1
                    /\ \E i \in 1..Len(keys[t]) :
                          /\ keys[t][i].secret = s
                          /\ r.body[1] = [id |-> keys[t][i].id, name |-> keys[t][i].name]
    /\ \A h \in Handlers :
          pc[h] = "done" /\ local[h].op = "create" /\ resp[h].status = 200 =>
              LET t == local[h].user_id
                  k == resp[h].body[1]
              IN  (\E i \in 1..Len(StorageListKeys(keys, t).value) : StorageListKeys(keys, t).value[i] = k) =>
                      LookupOn(keys, t, k.secret) = [status |-> 200, body |-> <<[id |-> k.id, name |-> k.name]>>]

\* C8, in every step: the lookup handler answers what the store holds
C8_ResponseStep(h) ==
    local[h].op = "lookup" =>
        /\ resp'[h].status = 200 <=> local[h].secret \in SecretsIn(keys, local[h].user_id)
        /\ resp'[h] = LookupOn(keys, local[h].user_id, local[h].secret)

\* C8: LookupKey succeeds iff the secret is stored for the tenant
C8_LookupSucceedsIffStored ==
    /\ []C8_LookupMatchesStore
    /\ [][\A h \in Handlers : Responds(h) => C8_ResponseStep(h)]_vars

\* C8 witness: a lookup of a stored secret has answered 200 with one entry
C8_Witness ==
    \E h \in Handlers :
        /\ pc[h] = "done"
        /\ local[h].op = "lookup"
        /\ resp[h].status = 200
        /\ local[h].secret \in SecretsIn(keys, local[h].user_id)

\* C9, in every state: a secret the generator never produced for a key of
\* tenant t looks up to 404 under t, whether or not t has a partition.
C9_NeverIssuedNotFound ==
    \A t \in Tenants, s \in RequestSecrets(generator) :
        <<t, s>> \notin generated => LookupOn(keys, t, s).status = 404

\* C9, in every step: the lookup handler answers 404 for such a secret
C9_ResponseStep(h) ==
    local[h].op = "lookup" /\ <<local[h].user_id, local[h].secret>> \notin generated =>
        resp'[h].status = 404

\* C9: looking up a never-issued secret is NotFound
C9_LookupNeverIssued ==
    /\ []C9_NeverIssuedNotFound
    /\ [][\A h \in Handlers : Responds(h) => C9_ResponseStep(h)]_vars

\* C9 witness: a tenant without a partition looked up a secret that was
\* generated for another tenant's stored key and was answered 404
C9_Witness ==
    \E h \in Handlers :
        /\ pc[h] = "done"
        /\ local[h].op = "lookup"
        /\ local[h].user_id \notin DOMAIN keys
        /\ <<local[h].user_id, local[h].secret>> \notin generated
        /\ \E t \in Tenants : local[h].secret \in SecretsIn(keys, t)
        /\ resp[h].status = 404

\* C10, in every state (uuid generator): a secret that update_key has
\* overwritten is stored in no partition and looks up to 404.
C10_ReplacedStaysInvalid ==
    \A r \in replaced :
        /\ LookupOn(keys, r[1], r[2]).status = 404
        /\ \A t \in Tenants : r[2] \notin SecretsIn(keys, t)

\* C10, in every step: no write stores an overwritten secret again, and the
\* lookup handler answers 404 for it
C10_Step ==
    /\ \A r \in replaced : \A t \in Tenants : r[2] \notin SecretsIn(keys', t)
    /\ \A h \in Handlers :
          Responds(h) /\ local[h].op = "lookup" /\ <<local[h].user_id, local[h].secret>> \in replaced =>
              resp'[h].status = 404

\* C10: secret invalidation by regenerate is immediate and permanent
C10_InvalidationIsPermanent ==
    /\ []C10_ReplacedStaysInvalid
    /\ [][C10_Step]_vars

\* C10 witness: two secrets of one key were overwritten in turn, and a lookup
\* of an overwritten secret was answered 404
C10_Witness ==
    \E h \in Handlers :
        /\ pc[h] = "done"
        /\ local[h].op = "lookup"
        /\ <<local[h].user_id, local[h].secret>> \in replaced
        /\ resp[h].status = 404
        /\ Cardinality(replaced) >= 2

\* the positions of a handler that took the Mutex in the step that started it
FirstCalls == {"list_keys", "delete_key", "regenerate_list_keys", "lookup_key"}

\* handler h is inside a storage call: it holds the MutexGuard
InCriticalSection(h) == pc[h] \in FirstCalls \/ (pc[h] \in StorageCalls /\ lock = h)

\* handler h runs the body of its storage call and drops the guard in this step
StorageCallStep(h) == InCriticalSection(h) /\ pc'[h] # pc[h]

\* the store that the storage call handler h is inside of leaves behind
CallEffect(h) ==
    CASE pc[h] = "create_key" -> StorageCreateKey(keys, local[h].user_id, local[h].key[1]).keys
      [] pc[h] = "delete_key" -> StorageDeleteKey(keys, local[h].user_id, local[h].id).keys
      [] pc[h] = "regenerate_update_key" -> StorageUpdateKey(keys, local[h].user_id, local[h].key[1]).keys
      [] OTHER -> keys

\* C11, in every state: at most one handler is inside a storage call, and it
\* is the holder of the Mutex; the Mutex is free exactly when nobody is.
C11_MutualExclusion ==
    /\ Cardinality({h \in Handlers : InCriticalSection(h)}) <= 1
    /\ \A h \in Handlers : InCriticalSection(h) => lock = h
    /\ lock # NoHolder => lock \in Handlers /\ InCriticalSection(lock)

\* C11, in every step: the store changes only in the step in which the one
\* handler inside a storage call runs it, and then to the result of that one
\* call on the current store; so the store's history is the storage calls
\* applied one after the other in the order of these steps.
C11_OneCallAtATime ==
    /\ keys' # keys => \E h \in Handlers : StorageCallStep(h)
    /\ \A h \in Handlers :
          StorageCallStep(h) =>
              /\ lock = h
              /\ lock' = NoHolder
              /\ keys' = CallEffect(h)
              /\ \A g \in Handlers \ {h} : pc'[g] = pc[g] /\ local'[g] = local[g] /\ resp'[g] = resp[g]

\* C11: the in-memory backend serialises all storage calls
C11_StorageCallsAreSerialised ==
    /\ []C11_MutualExclusion
    /\ [][C11_OneCallAtATime]_vars

\* C11 witness: a handler is inside a storage call for one tenant while the
\* other handler waits for the Mutex with a call for another tenant
C11_Witness ==
    \E h \in Handlers, g \in Handlers :
        /\ InCriticalSection(h)
        /\ pc[g] \in StorageCalls
        /\ lock = h
        /\ g # h
        /\ local[g].user_id # local[h].user_id

\* C12: in every state no two keys of one tenant's partition have the same id
C12_IdsUniqueWithinPartition ==
    \A t \in DOMAIN keys :
        \A i \in 1..Len(keys[t]), j \in 1..Len(keys[t]) :
            keys[t][i].id = keys[t][j].id => i = j

\* C12 witness: two creates for one tenant ran concurrently and both keys are stored
C12_Witness ==
    \E h \in Handlers, g \in Handlers :
        /\ h # g
        /\ pc[h] = "done" /\ pc[g] = "done"
        /\ local[h].op = "create" /\ local[g].op = "create"
        /\ local[h].user_id = local[g].user_id
        /\ Len(keys[local[h].user_id]) = 2

\* C13, in every step: a key that stays stored keeps its name under its id;
\* an id enters a partition only by the create_key call that built the key,
\* with the name supplied to it, and never after it was deleted from that
\* partition; whatever a write changes in a stored key is its secret.
C13_LifecycleStep ==
    \A t \in Tenants :
        /\ \A i \in 1..Len(StorageListKeys(keys, t).value), j \in 1..Len(StorageListKeys(keys', t).value) :
              keys[t][i].id = keys'[t][j].id => keys[t][i].name = keys'[t][j].name
        /\ \A id \in IdsOf(keys', t) \ IdsOf(keys, t) :
              /\ <<t, id>> \notin deleted
              /\ \E h \in Handlers :
                    /\ CreateKeyStep(h)
                    /\ local[h].user_id = t
                    /\ keys'[t][Len(keys'[t])] = ApiKey(id, local[h].name, local[h].key[1].secret)
        /\ \A id \in IdsOf(keys, t) \ IdsOf(keys', t) :
              /\ <<t, id>> \in deleted'
              /\ \E h \in Handlers : pc[h] = "delete_key" /\ Responds(h) /\ local[h].id = id

\* C13, in every state: a deleted key is not stored
C13_DeletedIsFinal == \A d \in deleted : d[2] \notin IdsOf(keys, d[1])

\* C13: id and name of a stored key never change; created, regenerated any
\* number of times, then deleted for good
C13_KeyLifecycle ==
    /\ []C13_DeletedIsFinal
    /\ [][C13_LifecycleStep]_vars

\* C13 witness: a regenerate wrote back the key it had read before another
\* regenerate of the same key wrote; the stored key has the name it read
C13_Witness ==
    \E h \in Handlers :
        /\ pc[h] = "done"
        /\ local[h].op = "regenerate"
        /\ resp[h].status = 200
        /\ Cardinality(replaced) >= 2
        /\ <<local[h].user_id, FoundKey(h).secret>> \in replaced
        /\ \E i \in 1..Len(keys[local[h].user_id]) :
              /\ keys[local[h].user_id][i].id = local[h].id
              /\ keys[local[h].user_id][i].name = FoundKey(h).name
              /\ keys[local[h].user_id][i].secret = resp[h].body[1].secret

\* the responses: those that carry a key with its secret are the 200 of
\* create_key and of regenerate_key, every other body is made of (id, name)
C14_NoSecretIn(r) == \A i \in 1..Len(r.body) : DOMAIN r.body[i] = {"id", "name"}

\* C14: in every state the list and lookup responses, returned or computed
\* on the current store, consist of (id, name) projections only; and a
\* returned response that holds a secret is a create or regenerate success.
C14_SecretOnlyOnCreateAndRegenerate ==
    /\ \A t \in Tenants :
          /\ C14_NoSecretIn(ListOn(keys, t))
          /\ \A s \in RequestSecrets(generator) : C14_NoSecretIn(LookupOn(keys, t, s))
    /\ \A h \in Handlers :
          pc[h] = "done" =>
              \/ C14_NoSecretIn(resp[h])
              \/ local[h].op \in {"create", "regenerate"} /\ resp[h].status = 200

\* C14 witness: a list response with an entry and a lookup response with an
\* entry have been returned
C14_Witness ==
    \E h \in Handlers, g \in Handlers :
        /\ pc[h] = "done" /\ local[h].op = "list" /\ Len(resp[h].body) >= 1
        /\ pc[g] = "done" /\ local[g].op = "lookup" /\ Len(resp[g].body) = 1

\* handler h runs a storage call that may write tenant t's partition in this step
MutationStep(h, t) ==
    /\ StorageCallStep(h)
    /\ local[h].user_id = t
    /\ pc[h] \in {"create_key", "delete_key", "regenerate_update_key"}

\* the set of (id, name) entries of a list response
ListedEntries(r) == {r.body[i] : i \in 1..Len(r.body)}

\* C15, in every step: a list handler answers with the list of the current
\* store, and a step that is not a create, delete or update call for tenant t
\* (a call for another tenant, a list or a lookup of t, any other step)
\* leaves the answer ListKeys(t) would get unchanged.
C15_ListStep ==
    /\ \A h \in Handlers :
          Responds(h) /\ local[h].op = "list" =>
              ListedEntries(resp'[h]) = ListedEntries(ListOn(keys, local[h].user_id))
    /\ \A t \in Tenants :
          (~ \E h \in Handlers : MutationStep(h, t)) =>
              /\ ListOn(keys', t).status = ListOn(keys, t).status
              /\ ListedEntries(ListOn(keys', t)) = ListedEntries(ListOn(keys, t))

\* C15: ListKeys(T) twice without a mutation of T in between gives equal sets
C15_ListIsRepeatable == [][C15_ListStep]_vars

\* C15 witness: a list of user1 was answered with a key, the other handler
\* then completed a create for user2, and user1's list is still that answer
C15_Witness ==
    \E h \in Handlers, g \in Handlers :
        /\ pc[h] = "done" /\ local[h].op = "list" /\ local[h].user_id = "user1"
        /\ Len(resp[h].body) >= 1
        /\ pc[g] = "done" /\ local[g].op = "create" /\ local[g].user_id = "user2"
        /\ IdsOf(keys, "user2") # {}
        /\ ListedEntries(resp[h]) = ListedEntries(ListOn(keys, "user1"))

\* the keys a request may pass to update_key for this id
UpdateArguments(id) == {ApiKey(id, name, "new") : name \in Names}

\* C16, delete, on the current store: NotFound exactly when the partition
\* holds no key with the id, and then the store is as it was; on Ok the
\* other partitions are as they were and the tenant's partition is the old
\* one without that one key, in the same order.
C16_Delete(t, id) ==
    LET d == StorageDeleteKey(keys, t, id)
        old == StorageListKeys(keys, t).value
        RemainingIndices == {i \in 1..Len(old) : old[i].id # id}
    IN  /\ d.result \in {"Ok", "NotFound"}
        /\ d.result = "NotFound" <=> id \notin IdsOf(keys, t)
        /\ d.result = "NotFound" => d.keys = keys
        /\ d.result = "Ok" =>
              /\ DOMAIN d.keys = DOMAIN keys
              /\ \A u \in DOMAIN keys \ {t} : d.keys[u] = keys[u]
              /\ Len(d.keys[t]) = Len(old) - 1
              /\ id \notin IdsOf(d.keys, t)
              /\ \A i \in RemainingIndices :
                    d.keys[t][Cardinality({j \in RemainingIndices : j <= i})] = old[i]

\* C16, update, on the current store: NotFound in the same cases, leaving
\* the store as it was; on Ok the key with that id is the one passed in and
\* every other key of every partition is as it was.
C16_Update(t, key) ==
    LET u == StorageUpdateKey(keys, t, key)
        old == StorageListKeys(keys, t).value
    IN  /\ u.result \in {"Ok", "NotFound"}
        /\ u.result = "NotFound" <=> key.id \notin IdsOf(keys, t)
        /\ u.result = "NotFound" => u.keys = keys
        /\ u.result = "Ok" =>
              /\ DOMAIN u.keys = DOMAIN keys
              /\ \A v \in DOMAIN keys \ {t} : u.keys[v] = keys[v]
              /\ Len(u.keys[t]) = Len(old)
              /\ \A i \in 1..Len(old) :
                    u.keys[t][i] = IF old[i].id = key.id THEN key ELSE old[i]

\* C16: delete and update are NotFound exactly for an id the partition does
\* not hold, change nothing then, and otherwise touch exactly that one key
C16_DeleteAndUpdateTouchOneKey ==
    \A t \in Tenants, id \in RequestIds :
        /\ C16_Delete(t, id)
        /\ \A key \in UpdateArguments(id) : C16_Update(t, key)

\* C16 witness: a tenant's partition was emptied by a delete and a further
\* delete on the emptied partition came back NotFound, while the other
\* tenant has no partition
C16_Witness ==
    \E h \in Handlers, t \in Tenants :
        /\ pc[h] = "done" /\ local[h].op = "delete" /\ local[h].user_id = t
        /\ local[h].result = "NotFound"
        /\ t \in DOMAIN keys
        /\ keys[t] = <<>>
        /\ DOMAIN keys # Tenants

\* the response RegenerateKey(user_id, id) gets from store ks when the id is
\* not in the list it reads (0 stands for: the id is there, the handler goes on)
RegenerateMissOn(ks, user_id, id) ==
    LET r == StorageListKeys(ks, user_id)
    IN  IF r.result = "Ok" /\ RegenerateFind(r.value, id) # 0
        THEN NoResp
        ELSE RegenerateMissResponse(r.result)

\* C17, in every state: for a tenant for which no create has taken effect
\* (it has no partition) ListKeys answers 200 with an empty sequence and
\* RegenerateKey answers 404 for every id.
C17_UnknownTenant ==
    \A t \in Tenants \ DOMAIN keys :
        /\ ListOn(keys, t) = [status |-> 200, body |-> <<>>]
        /\ \A id \in RequestIds : RegenerateMissOn(keys, t, id).status = 404

\* C17, in every step: the list and regenerate handlers answer so
C17_ResponseStep(h) ==
    local[h].user_id \notin DOMAIN keys =>
        /\ local[h].op = "list" => resp'[h] = [status |-> 200, body |-> <<>>]
        /\ local[h].op = "regenerate" => resp'[h].status = 404

\* C17: listing an unknown tenant is an empty success, regenerating is NotFound
C17_UnknownTenantListsEmpty ==
    /\ []C17_UnknownTenant
    /\ [][\A h \in Handlers : Responds(h) => C17_ResponseStep(h)]_vars

\* C17 witness: one handler listed and the other regenerated for a tenant
\* without a partition, while the other tenant holds the id asked for
C17_Witness ==
    \E h \in Handlers, g \in Handlers, t \in Tenants :
        /\ t \notin DOMAIN keys
        /\ pc[h] = "done" /\ local[h].op = "list" /\ local[h].user_id = t
        /\ resp[h] = [status |-> 200, body |-> <<>>]
        /\ pc[g] = "done" /\ local[g].op = "regenerate" /\ local[g].user_id = t
        /\ resp[g].status = 404
        /\ \E u \in DOMAIN keys : local[g].id \in IdsOf(keys, u)

\* C18, in every step: the storage call of create_key returns Ok and the
\* handler answers 200; the tenant's partition afterwards is the one before
\* (empty when the tenant had none) with the new key appended, and every
\* other partition is as it was.
C18_CreateStep(h) ==
    LET t == local[h].user_id
        old == StorageListKeys(keys, t).value
    IN  /\ local'[h].result = "Ok"
        /\ resp'[h].status = 200
        /\ DOMAIN keys' = DOMAIN keys \cup {t}
        /\ keys'[t] = Append(old, local[h].key[1])
        /\ Len(keys'[t]) = Len(old) + 1
        /\ \A i \in 1..Len(old) : keys'[t][i] = old[i]
        /\ \A u \in DOMAIN keys \ {t} : keys'[u] = keys[u]

\* C18, in every state: create would return Ok for every tenant and name,
\* whether or not a key of the tenant has that name
C18_CreateNeverRejects ==
    \A t \in Tenants, name \in Names :
        StorageCreateKey(keys, t, ApiKey(NewV4(uuids), name, "new")).result = "Ok"

\* C18: CreateKey always succeeds, duplicate names included, and appends one key
C18_CreateAlwaysSucceeds ==
    /\ []C18_CreateNeverRejects
    /\ [][\A h \in Handlers : CreateKeyStep(h) => C18_CreateStep(h)]_vars

\* C18 witness: a create for a name the tenant already used was answered 200
\* and both keys of that name are stored
C18_Witness ==
    \E h \in Handlers :
        /\ pc[h] = "done" /\ local[h].op = "create" /\ resp[h].status = 200
        /\ Len(keys[local[h].user_id]) = 2
        /\ keys[local[h].user_id][1].name = keys[local[h].user_id][2].name
        /\ keys[local[h].user_id][2] = resp[h].body[1]

\* a step of handler h past its start: the body of a storage call or generate()
HandlerStep(h) ==
    \/ CreateKeyStorage(h)
    \/ ListKeysStorage(h)
    \/ DeleteKeyStorage(h)
    \/ RegenerateListKeys(h)
    \/ RegenerateGenerate(h)
    \/ RegenerateUpdateKey(h)
    \/ LookupKeyStorage(h)

\* the runtime keeps polling every task, and tokio's Mutex hands the lock to
\* its waiters in FIFO order: a task that keeps asking for it gets it
Fairness == \A h \in Handlers : WF_vars(HandlerStep(h)) /\ SF_vars(Acquire(h))

\* the requests followed under fairness: those of one tenant, with one name
\* (which handler gets the Mutex, and when, depends on neither)
FairScope ==
    \A h \in Handlers :
        /\ local'[h].user_id \in {NoLocal.user_id, "user1"}
        /\ local'[h].name \in {NoLocal.name, "Test Key"}

SpecFair == Init /\ [][Next /\ FairScope]_vars /\ Fairness

\* C19, in every state: the holder of the Mutex is a handler inside one
\* storage call; a handler between the two calls of regenerate_key, idle or
\* done does not hold it, and a handler that asks for it does not hold it.
C19_NoLockHeldAcrossCalls ==
    \A h \in Handlers :
        /\ lock = h => pc[h] \in FirstCalls \cup StorageCalls
        /\ pc[h] \in {"idle", "regenerate_generate", "done"} => lock # h

\* C19: every started operation returns a response, and the Mutex is never
\* asked for by the handler that holds it
C19_EveryOperationCompletes ==
    /\ []C19_NoLockHeldAcrossCalls
    /\ \A h \in Handlers : (pc[h] \notin {"idle", "done"}) ~> (pc[h] = "done")

\* C19 witness: a regenerate_key that has read the list waits for the Mutex
\* of its update while the other handler is inside a storage call
C19_Witness ==
    \E h \in Handlers, g \in Handlers :
        /\ pc[h] = "regenerate_update_key"
        /\ lock = g
        /\ g # h
        /\ InCriticalSection(g)

\* the (id, name) views of the keys of user_id's partition that hold secret
HoldersOf(ks, user_id, secret) ==
    {ProtectedApiKey(ks[user_id][i]) :
        i \in {j \in 1..Len(StorageListKeys(ks, user_id).value) : ks[user_id][j].secret = secret}}

\* C20, in every state (any generator): when keys of two tenants hold the
\* same secret, each tenant's lookup of it answers 200 with the id and name
\* of a key of its own partition that holds it (of the key, when only one
\* does), and never with a key of the other tenant.
C20_CollisionInvisible ==
    \A t1 \in Tenants, t2 \in Tenants, s \in RequestSecrets(generator) :
        t1 # t2 /\ s \in SecretsIn(keys, t1) \cap SecretsIn(keys, t2) =>
            LET r == LookupOn(keys, t1, s)
            IN  /\ r.status = 200
                /\ Len(r.body) = 1
                /\ r.body[1] \in HoldersOf(keys, t1, s)
                /\ r.body[1] \notin HoldersOf(keys, t2, s)
                /\ r = LookupOn(OwnPartition(keys, t1), t1, s)

\* C20, in every step: a delete or an update (regenerate) call for one tenant
\* leaves the answer of every lookup of every other tenant as it was
C20_Step ==
    \A h \in Handlers :
        StorageCallStep(h) /\ pc[h] \in {"delete_key", "regenerate_update_key"} =>
            \A t2 \in Tenants \ {local[h].user_id}, s \in RequestSecrets(generator) :
                LookupOn(keys', t2, s) = LookupOn(keys, t2, s)

\* C20: secrets that collide across tenants resolve per tenant
C20_CrossTenantCollisionsInvisible ==
    /\ []C20_CollisionInvisible
    /\ [][C20_Step]_vars

\* C20 witness: the generator gave user1's key and user2's key the same
\* secret; user1's key was then deleted, and user2's lookup of the secret
\* was answered with user2's key
C20_Witness ==
    \E h \in Handlers, g \in Handlers :
        /\ pc[h] = "done" /\ local[h].op = "delete" /\ local[h].user_id = "user1"
        /\ resp[h].status = 204
        /\ pc[g] = "done" /\ local[g].op = "lookup" /\ local[g].user_id = "user2"
        /\ resp[g].status = 200
        /\ <<"user1", local[g].secret>> \in generated
        /\ resp[g].body[1] \in HoldersOf(keys, "user2", local[g].secret)

\* the ids of a Vec<ApiKey>, in its order
IdSequence(user_keys) == [i \in 1..Len(user_keys) |-> user_keys[i].id]

\* C21, in every step and for every tenant: two keys stored before and after
\* the step keep their relative order; a key that enters the partition is the
\* key of the create_key call made in this step and stands last; a delete
\* removes one position and an update none; a list handler answers with the
\* stored sequence, position by position.
C21_OrderStep ==
    \A t \in Tenants :
        LET before == StorageListKeys(keys, t).value
            after  == StorageListKeys(keys', t).value
        IN  /\ \A i \in 1..Len(after), j \in 1..Len(after) :
                    i < j /\ {after[i].id, after[j].id} \subseteq IdsOf(keys, t) =>
                        IndexOfId(before, after[i].id) < IndexOfId(before, after[j].id)
            /\ \A j \in 1..Len(after) :
                    after[j].id \notin IdsOf(keys, t) =>
                        /\ j = Len(after)
                        /\ Len(after) = Len(before) + 1
                        /\ \E h \in Handlers :
                              /\ MutationStep(h, t) /\ pc[h] = "create_key"
                              /\ after[j] = local[h].key[1]
            /\ \A h \in Handlers :
                  /\ MutationStep(h, t) /\ pc[h] = "create_key" =>
                        IdSequence(after) = Append(IdSequence(before), local[h].key[1].id)
                  /\ MutationStep(h, t) /\ pc[h] = "delete_key" /\ local'[h].result = "Ok" =>
                        /\ Len(after) = Len(before) - 1
                        /\ IdsOf(keys', t) = IdsOf(keys, t) \ {local[h].id}
                  /\ MutationStep(h, t) /\ pc[h] = "regenerate_update_key" =>
                        IdSequence(after) = IdSequence(before)
                  /\ pc[h] = "list_keys" /\ Responds(h) /\ local[h].user_id = t =>
                        /\ resp'[h].status = 200
                        /\ IdSequence(resp'[h].body) = IdSequence(before)

PendingWrite(h, secret) ==
    /\ pc[h] \in StorageCalls
    /\ local[h].key[1].secret = secret

\* the secrets stored in any partition of ks
StoredSecrets(ks) == UNION {SecretsIn(ks, u) : u \in DOMAIN ks}

\* C22, the update_key step of a regenerate whose key was deleted after the
\* handler listed it: the store is left as it is, the id is not in the
\* partition, the handler does not answer 200, and its secret looks up to 404.
C22_RaceStep(h) ==
    LET t == local[h].user_id
        secret == local[h].key[1].secret
    IN  /\ keys' = keys
        /\ local'[h].result = "NotFound"
        /\ local[h].id \notin IdsOf(keys', t)
        /\ resp'[h].status # 200
        /\ resp'[h].body = NoBody
        /\ secret \notin StoredSecrets(keys')
        /\ LookupOn(keys', t, secret).status = 404

\* C22, in every step: a generated secret that is neither stored nor about to
\* be written by a handler is not stored after the step, and no handler
\* comes to hold it (so it stays unresolvable for good); a deleted id is not
\* in its partition after the step.
C22_LostForever ==
    /\ \A pair \in generated :
          /\ pair[2] \notin StoredSecrets(keys)
          /\ \A h \in Handlers : ~PendingWrite(h, pair[2])
          => /\ pair[2] \notin StoredSecrets(keys')
             /\ \A h \in Handlers : ~PendingWrite(h, pair[2])'
             /\ \A u \in Tenants : LookupOn(keys', u, pair[2]).status = 404
    /\ \A pair \in deleted' : pair[2] \notin IdsOf(keys', pair[1])

\* C22: a regenerate that races with a delete of its key never resurrects it
C22_RegenerateNeverResurrects ==
    [][/\ \A h \in Handlers :
             RegenerateUpdateStep(h) /\ local[h].id \notin IdsOf(keys, local[h].user_id)
                 => C22_RaceStep(h)
       /\ C22_LostForever]_vars

\* C22 witness: a regenerate listed its key, a delete removed the key, and the
\* regenerate's update_key then found nothing; the handler has answered
C22_Witness ==
    \E h \in Handlers :
        /\ pc[h] = "done" /\ local[h].op = "regenerate"
        /\ local[h].result = "NotFound"
        /\ <<local[h].user_id, local[h].id>> \in deleted
        /\ FoundKey(h).id = local[h].id
        /\ <<local[h].user_id, local[h].key[1].secret>> \in generated
        /\ local[h].key[1].secret \notin StoredSecrets(keys)

\* handler h runs a read (the storage call of list_keys or lookup_key of
\* lib.rs, the body of list_keys or lookup_key of main.rs) in this step
ReadStep(h) ==
    /\ pc[h] \in {"list_keys", "lookup_key", "main_list_keys", "main_lookup_key"}
    /\ pc'[h] = "done"

\* C23, in every step: a ListKeys or a LookupKey leaves the whole store as it
\* was, the set of tenants that have a partition entry included, also when
\* the tenant is unknown.
C23_ReadsLeaveStoreUnchanged ==
    [][\A h \in Handlers :
          ReadStep(h) =>
              /\ DOMAIN keys' = DOMAIN keys
              /\ keys' = keys]_vars

\* the keys AppState.keys of main.rs holds for user_id (none without an entry)
MainKeysOf(app_keys, user_id) == IF user_id \in DOMAIN app_keys THEN app_keys[user_id] ELSE <<>>

\* the two servers keep the same keys per tenant
SameKeysPerTenant(ks, app_keys) ==
    \A t \in Tenants : StorageListKeys(ks, t).value = MainKeysOf(app_keys, t)

\* the maps main.rs can hold when lib.rs holds ks after the same requests:
\* ks, with an empty entry for any of the tenants main.rs's list_keys has
\* inserted and lib.rs has not
MainStoresFor(ks) ==
    {ks @@ [u \in listed |-> <<>>] : listed \in SUBSET (Tenants \ DOMAIN ks)}

\* what the main.rs handler answers and leaves behind, on app_keys, for the
\* request that lib.rs handler h completes in this step (with the id and the
\* secret that h drew)
MainOutcome(h, app_keys) ==
    CASE pc[h] = "create_key" ->
            MainCreateKey(app_keys, local[h].user_id, local[h].key[1])
      [] pc[h] = "list_keys" ->
            MainListKeys(app_keys, local[h].user_id)
      [] pc[h] = "delete_key" ->
            MainDeleteKey(app_keys, local[h].user_id, local[h].id)
      [] pc[h] = "lookup_key" ->
            MainLookupKey(app_keys, local[h].user_id, local[h].secret)
      [] pc[h] = "regenerate_list_keys" ->
            MainRegenerateKey(app_keys, local[h].user_id, local[h].id, UuidGenerate(uuids))
      [] pc[h] = "regenerate_update_key" ->
            MainRegenerateKey(app_keys, local[h].user_id, local[h].id, local[h].key[1].secret)

\* C24, every step in which a lib.rs handler returns its response: unless a
\* delete removed the key between a regenerate's list and its update, the
\* main.rs handler run at this point on any map with the same keys per
\* tenant returns the same status and body and leaves the same keys per
\* tenant; in that race lib.rs alone has an outcome (main.rs answers 404
\* without drawing a secret) and the keys per tenant still agree.
C24_AgreeStep(h) ==
    \A app_keys \in MainStoresFor(keys) :
        LET m == MainOutcome(h, app_keys)
            race == /\ pc[h] = "regenerate_update_key"
                    /\ local[h].id \notin IdsOf(keys, local[h].user_id)
        IN  /\ SameKeysPerTenant(keys, app_keys)
            /\ SameKeysPerTenant(keys', m.keys)
            /\ ~race => resp'[h] = m.resp
            /\ race => m.resp.status = 404 /\ m.keys = app_keys

\* C24: lib.rs over InMemoryStorage and main.rs agree on every request served
\* without a delete inside a regenerate's window, hence on every sequence of
\* requests run one at a time and on every serial order main.rs's lock imposes
C24_ImplementationsAgree ==
    [][\A h \in Handlers : Responds(h) => C24_AgreeStep(h)]_vars

\* C24 witness: run one after the other, a regenerate answered 200 and a list
\* of the unknown tenant user2 answered as main.rs's does, where main.rs
\* holds an entry for user2 that lib.rs does not
C24_Witness ==
    \E h \in Handlers, g \in Handlers :
        /\ pc[h] = "done" /\ local[h].op = "regenerate" /\ resp[h].status = 200
        /\ local[h].user_keys = <<FoundKey(h)>>
        /\ keys = ("user1" :> <<resp[h].body[1]>>)
        /\ pc[g] = "done" /\ local[g].op = "list" /\ local[g].user_id = "user2"
        /\ MainListKeys(keys, "user2").resp = resp[g]
        /\ MainListKeys(keys, "user2").keys # keys
        /\ MainListKeys(keys, "user2").keys \in MainStoresFor(keys)

\* the places (tenant, index) of the store at which a key is kept
StoredPlaces(ks) == UNION {{<<u, i>> : i \in 1..Len(ks[u])} : u \in DOMAIN ks}

\* C25, in every state reached with the uuid generator (which repeats no
\* output): any two keys stored at different places, of one tenant or of two,
\* hold different secrets, and for each tenant a presented secret is held by
\* at most one key, the key that the lookup returns.
C25_SecretsPairwiseDistinct ==
    /\ \A p \in StoredPlaces(keys), q \in StoredPlaces(keys) :
          p # q => keys[p[1]][p[2]].secret # keys[q[1]][q[2]].secret
    /\ \A t \in Tenants, s \in RequestSecrets(generator) :
          /\ Cardinality({i \in 1..Len(StorageListKeys(keys, t).value) : keys[t][i].secret = s}) <= 1
          /\ LookupOn(keys, t, s).status = 200 => HoldersOf(keys, t, s) = {LookupOn(keys, t, s).body[1]}

\* C25 witness: two keys are stored; the create of one has answered and a
\* lookup by the same tenant has resolved the secret of the other
C25_Witness ==
    \E h \in Handlers, g \in Handlers :
        /\ Cardinality(StoredPlaces(keys)) = 2
        /\ h # g
        /\ pc[h] = "done" /\ local[h].op = "create" /\ resp[h].status = 200
        /\ pc[g] = "done" /\ local[g].op = "lookup" /\ resp[g].status = 200
        /\ local[g].secret # local[h].key[1].secret
        /\ local[g].user_id = local[h].user_id

\* the server with the pooled generator, followed on the requests of one
\* tenant that give one name (secrets repeat within that tenant's partition)
SpecPooled == InitPooled /\ [][Next /\ FairScope]_vars


\* the positions of user_id's partition whose key holds secret
HolderPositions(ks, user_id, secret) ==
    {i \in 1..Len(StorageListKeys(ks, user_id).value) : ks[user_id][i].secret = secret}

\* position i is the earliest of the positions of user_id's partition that hold secret
EarliestHolder(ks, user_id, secret, i) ==
    /\ i \in HolderPositions(ks, user_id, secret)
    /\ \A j \in HolderPositions(ks, user_id, secret) : i <= j

\* C26, in every state: when keys of tenant t hold secret s, LookupKey(t, s)
\* answers 200 with the id and name of the earliest of them in the partition's
\* sequence (which is the order of creation, C21).
C26_LookupReturnsEarliest ==
    \A t \in Tenants, s \in RequestSecrets(generator) :
        \A i \in HolderPositions(keys, t, s) :
            EarliestHolder(keys, t, s, i) =>
                LookupOn(keys, t, s) = [status |-> 200, body |-> <<ProtectedApiKey(keys[t][i])>>]

\* handler h deletes, or regenerates, the earliest holder of s in t's
\* partition in this step, and a later key, at position next, holds s as well
C26_EarliestGoes(h, t, s, next) ==
    /\ MutationStep(h, t)
    /\ pc[h] \in {"delete_key", "regenerate_update_key"}
    /\ local'[h].result = "Ok"
    /\ \E i \in HolderPositions(keys, t, s) :
          /\ EarliestHolder(keys, t, s, i)
          /\ keys[t][i].id = local[h].id
          /\ EarliestHolder([keys EXCEPT ![t] = RemoveAt(@, i)], t, s, next - 1)

\* C26 as claimed, in every step: after the earliest holder of s is deleted
\* or regenerated, LookupKey(t, s) returns the next holder.
C26_NextAfterDeleteOrRegenerate ==
    [][\A h \in Handlers, t \in Tenants, s \in RequestSecrets(generator), next \in 1..MaxPooledDraws :
          C26_EarliestGoes(h, t, s, next) =>
              LookupOn(keys', t, s) = [status |-> 200, body |-> <<ProtectedApiKey(keys[t][next])>>]]_vars

\* C26 amended, in every step: after the earliest holder of s is deleted, or
\* regenerated to a secret other than s, LookupKey(t, s) returns the next
\* holder; regenerated to s again (the generator repeats), it is still the
\* earliest holder and LookupKey(t, s) returns it.
C26_AmendedStep(h, t, s, next) ==
    LET again == pc[h] = "regenerate_update_key" /\ local[h].key[1].secret = s
    IN  /\ ~again =>
            LookupOn(keys', t, s) = [status |-> 200, body |-> <<ProtectedApiKey(keys[t][next])>>]
        /\ again =>
            /\ LookupOn(keys', t, s) = LookupOn(keys, t, s)
            /\ LookupOn(keys', t, s).body[1].id = local[h].id

\* C26 amended: first match in the partition's sequence, before and after the
\* earliest holder is deleted or regenerated
C26_FirstMatchWins ==
    /\ []C26_LookupReturnsEarliest
    /\ [][\A h \in Handlers, t \in Tenants, s \in RequestSecrets(generator), next \in 1..MaxPooledDraws :
             C26_EarliestGoes(h, t, s, next) => C26_AmendedStep(h, t, s, next)]_vars

\* C26 witness: two keys of user1 held the same secret; the earlier was
\* regenerated to another secret, and a lookup of the shared secret has
\* answered with the later key
C26_Witness ==
    \E h \in Handlers, g \in Handlers :
        /\ pc[h] = "done" /\ local[h].op = "regenerate" /\ resp[h].status = 200
        /\ FoundKey(h).secret # resp[h].body[1].secret
        /\ pc[g] = "done" /\ local[g].op = "lookup" /\ resp[g].status = 200
        /\ local[g].secret = FoundKey(h).secret
        /\ IndexOfId(keys["user1"], local[h].id) # 0
        /\ IndexOfId(keys["user1"], local[h].id) < IndexOfId(keys["user1"], resp[g].body[1].id)

=============================================================================
